---- MODULE Spec2Model ----
(***************************************************************************)
(* Model of the SQL conversational interface (src/backend/app.py): the     *)
(* SQLAgent pipeline (schema introspection, query generation, query        *)
(* execution, result summarisation, insight generation) and the three HTTP *)
(* handlers that drive it.                                                 *)
(*                                                                         *)
(* Python values are modelled as follows.                                  *)
(*   - a local that has not been assigned yet is <<>>, an assigned local   *)
(*     holding v is <<v>>;                                                 *)
(*   - a string is the sequence of its pieces, and a value that is a       *)
(*     string or None is [none, text];                                     *)
(*   - a cell of a result set is [t |-> kind, v |-> n] with kind one of    *)
(*     "int", "str", "none" (SQL NULL) and "bytes" (a BLOB);               *)
(*   - a dict is the sequence of its <<key, value>> pairs in insertion     *)
(*     order (Python dicts keep insertion order).                          *)
(***************************************************************************)
EXTENDS Integers, Sequences, FiniteSets, TLC

VARIABLES
    \* ---- the agent and the requests in flight (specification Spec)
    agent,        \* "unbuilt" before `sql_agent = SQLAgent()`, "built" after
    schema_info,  \* SQLAgent.schema_info
    schema_runs,  \* how many times _analyze_schema has run
    pc,           \* per request: the handler's position
    body,         \* per request: the request body as request.get_json() sees it
    question,     \* per request: the local `question`
    sql_query,    \* per request: the local `sql_query`
    results,      \* per request: the local `results`
    insights,     \* per request: the local `insights`
    response,     \* per request: the sequence of responses returned
    calls,        \* per request: how often each pipeline component ran
    conns,        \* every store connection opened so far
    \* ---- a single call of one pipeline function (SpecExec, SpecSchema, SpecSumm)
    fn_in,        \* the arguments of the call
    fn_out        \* <<>> before the call, <<return value>> after it

vars == <<agent, schema_info, schema_runs, pc, body, question, sql_query, results,
          insights, response, calls, conns, fn_in, fn_out>>

pipeline_vars == <<agent, schema_info, schema_runs, pc, body, question, sql_query,
                   results, insights, response, calls, conns>>

-----------------------------------------------------------------------------
(* Bounds of the model.                                                    *)

NumReq == 2          \* concurrent HTTP requests
MaxCols == 2         \* columns of a result set handed to execute_query
MaxRows == 2         \* rows of a result set handed to execute_query
MaxTables == 2       \* tables in the store's catalog
MaxTableRows == 6    \* rows stored in one table
SumCols == 5         \* columns of the data handed to _summarize_data
SumRows == 2         \* rows of the data handed to _summarize_data

-----------------------------------------------------------------------------
(* Generic helpers.                                                        *)

Min2(a, b) == IF a <= b THEN a ELSE b

Range(s) == {s[i] : i \in DOMAIN s}

Take(s, n) == SubSeq(s, 1, Min2(n, Len(s)))

SeqsUpTo(S, n) == UNION {[1..k -> S] : k \in 0..n}

VInt(i) == [t |-> "int", v |-> i]
VText(i) == [t |-> "str", v |-> i]
VNull == [t |-> "none", v |-> 0]
VBlob == [t |-> "bytes", v |-> 0]

-----------------------------------------------------------------------------
(* SQLAgent.execute_query, src/backend/app.py:98-118.                      *)
(*                                                                         *)
(* What the store does with the statement is an input:                     *)
(*   kind "connect_error": sqlite3.connect raises, with message msg;       *)
(*   kind "query_error":   pd.read_sql_query raises, with message msg      *)
(*                         (msg = "" for an exception built without        *)
(*                         arguments, str(e) == "");                       *)
(*   kind "rows":          the statement returns the result set with the   *)
(*                         column names `columns` and the rows `rows`.     *)

StoreError(kind, msg) == [kind |-> kind, msg |-> msg, columns |-> <<>>, rows |-> <<>>]

StoreRows(columns, rows) == [kind |-> "rows", msg |-> "", columns |-> columns, rows |-> rows]

\* The distinct labels of `columns`, each at the position of its first
\* occurrence: the key order of dict(zip(columns, row)).
RECURSIVE DictKeys(_)
DictKeys(columns) ==
    IF columns = <<>> THEN <<>>
    ELSE LET front == DictKeys(SubSeq(columns, 1, Len(columns) - 1))
             last == columns[Len(columns)]
         IN IF last \in Range(front) THEN front ELSE Append(front, last)

\* dict(zip(columns, row)): a later value of a repeated label overwrites
\* the earlier one.
LastIndexOf(columns, k) ==
    CHOOSE i \in DOMAIN columns :
        columns[i] = k /\ \A j \in DOMAIN columns : columns[j] = k => j <= i

RowToDict(columns, row) ==
    LET keys == DictKeys(columns)
    IN [i \in DOMAIN keys |-> <<keys[i], row[LastIndexOf(columns, keys[i])]>>]

\* df.to_dict('records'), app.py:107
to_dict_records(columns, rows) == [i \in DOMAIN rows |-> RowToDict(columns, rows[i])]

execute_query(sql_query_arg, store) ==
    IF store.kind = "rows"
    THEN [success |-> TRUE,
          data |-> to_dict_records(store.columns, store.rows),
          columns |-> store.columns,
          row_count |-> Len(store.rows)]
    ELSE [success |-> FALSE,
          error |-> store.msg,
          data |-> <<>>,
          columns |-> <<>>,
          row_count |-> 0]

\* Whether execute_query reaches conn.close() (app.py:103).
execute_query_closes(store) == store.kind = "rows"

Keys(record) == [i \in DOMAIN record |-> record[i][1]]

-----------------------------------------------------------------------------
(* SQLAgent._analyze_schema, src/backend/app.py:29-58.                     *)
(*                                                                         *)
(* The store is [tables |-> the catalog, in sqlite_master order]; a table  *)
(* is [name, columns |-> the rows of PRAGMA table_info, rows |-> its       *)
(* rows].  A PRAGMA row is <<cid, name, type, notnull>> (col[0]..col[3]).  *)
(* The store calls of one run are numbered: 1 is sqlite3.connect, 2 the    *)
(* sqlite_master query, 2i+1 the PRAGMA and 2i+2 the SELECT of the i-th    *)
(* table.  failAt is the call that raises, 0 when none does.               *)

PragmaStep(i) == 2 * i + 1
SelectStep(i) == 2 * i + 2
LastStep(store) == 2 * Len(store.tables) + 2

\* app.py:50
column_info(col) == [name |-> col[2], type |-> col[3], nullable |-> (col[4] = 0)]

\* app.py:46, `SELECT * FROM {table} LIMIT 5`
SampleLimit == 5
fetch_sample(table) == Take(table.rows, SampleLimit)

\* app.py:51, `sample_data[:3] if sample_data else []`
SampleKeep == 3
sample_rows(sample_data) == IF sample_data # <<>> THEN Take(sample_data, SampleKeep) ELSE <<>>

\* app.py:49-52
table_entry(table) ==
    <<table.name,
      [columns |-> [i \in DOMAIN table.columns |-> column_info(table.columns[i])],
       sample_data |-> sample_rows(fetch_sample(table))]>>

\* app.py:56-58: the handler drops whatever was built and returns {}.
KeepPartial(partial) == partial
schema_on_error(partial) == <<>>

\* app.py:40-52: the loop over the tables, from table i on, with the
\* mapping built so far.
RECURSIVE schema_loop(_, _, _, _)
schema_loop(store, failAt, i, schema) ==
    IF i > Len(store.tables)
    THEN [raised |-> FALSE, schema |-> schema]
    ELSE IF failAt \in {PragmaStep(i), SelectStep(i)}
         THEN [raised |-> TRUE, schema |-> schema]
         ELSE schema_loop(store, failAt, i + 1, Append(schema, table_entry(store.tables[i])))

\* The value _analyze_schema returns, and what it did to its connection.
_analyze_schema(store, failAt) ==
    IF failAt \in {1, 2}
    THEN [schema |-> schema_on_error(<<>>), opened |-> failAt # 1, closed |-> FALSE]
    ELSE LET run == schema_loop(store, failAt, 1, <<>>)
         IN IF run.raised
            THEN [schema |-> schema_on_error(run.schema), opened |-> TRUE, closed |-> FALSE]
            ELSE [schema |-> run.schema, opened |-> TRUE, closed |-> TRUE]

TableNames == {"cust_tbl", "prod_master", "OrderData"}

\* src/database/init_db.py:24-66, the first two columns of each table
TableColumns(name) ==
    IF name = "cust_tbl" THEN <<<<0, "id", "INTEGER", 0>>, <<1, "nm", "VARCHAR(100)", 0>>>>
    ELSE IF name = "prod_master" THEN <<<<0, "pid", "INTEGER", 0>>, <<1, "pname", "TEXT", 0>>>>
    ELSE <<<<0, "order_id", "INTEGER", 0>>, <<1, "customer_id", "INTEGER", 0>>>>

Table(name, n) == [name |-> name, columns |-> TableColumns(name), rows |-> [i \in 1..n |-> i]]

Distinct(s) == \A i, j \in DOMAIN s : s[i] = s[j] => i = j

\* Every catalog of up to maxTables distinct tables, each holding up to
\* maxRows rows.
Stores(maxTables, maxRows) ==
    {[tables |-> [i \in DOMAIN names |-> Table(names[i], sizes[i])]] :
        <<names, sizes>> \in
            UNION {{ns \in [1..k -> TableNames] : Distinct(ns)} \X [1..k -> 0..maxRows]
                   : k \in 0..maxTables}}

-----------------------------------------------------------------------------
(* SQLAgent._summarize_data, src/backend/app.py:168-188.                   *)
(*                                                                         *)
(* data is a list of dicts.  pd.DataFrame(data) has one column per key, in *)
(* the order the keys first appear; a key a row lacks reads as NaN.        *)

RECURSIVE FrameColumns(_)
FrameColumns(data) ==
    IF data = <<>> THEN <<>>
    ELSE LET front == FrameColumns(SubSeq(data, 1, Len(data) - 1))
             keys == Keys(data[Len(data)])
             new == SelectSeq(keys, LAMBDA k : k \notin Range(front))
         IN front \o new

Cell(record, k) ==
    IF \E i \in DOMAIN record : record[i][1] = k
    THEN record[CHOOSE i \in DOMAIN record : record[i][1] = k][2]
    ELSE VNull

FrameColumn(data, k) == [i \in DOMAIN data |-> Cell(data[i], k)]

\* The dtype pandas infers for a column of cells: integers give int64,
\* integers with None/NaN among them give float64, anything else (text,
\* bytes, or nothing but None) gives object.
dtype(cells) ==
    IF \A i \in DOMAIN cells : cells[i].t = "int" THEN "int64"
    ELSE IF /\ \A i \in DOMAIN cells : cells[i].t \in {"int", "none"}
            /\ \E i \in DOMAIN cells : cells[i].t = "int"
         THEN "float64"
         ELSE "object"

\* app.py:182, df.select_dtypes(include=['number']).columns
select_numeric(data) ==
    SelectSeq(FrameColumns(data), LAMBDA k : dtype(FrameColumn(data, k)) \in {"int64", "float64"})

\* app.py:185, numeric_cols[:3]
StatsCap == 3
NoCap(numeric_cols) == numeric_cols
capped(numeric_cols) == Take(numeric_cols, StatsCap)

Numbers(cells) == {i \in DOMAIN cells : cells[i].t = "int"}

RECURSIVE SumOver(_, _)
SumOver(cells, idx) ==
    IF idx = {} THEN 0
    ELSE LET i == CHOOSE j \in idx : TRUE IN cells[i].v + SumOver(cells, idx \ {i})

\* 100 * (total / count) rounded to an integer, ties to even: the digits
\* f"{mean:.2f}" prints.  total >= 0 in the model.
Hundredths(total, count) ==
    LET q == (100 * total) \div count
        r == (100 * total) % count
    IN IF 2 * r < count THEN q
       ELSE IF 2 * r > count THEN q + 1
       ELSE IF q % 2 = 0 THEN q ELSE q + 1

\* app.py:186, one line `col: min=.., max=.., avg=..`
stats_line(data, col) ==
    LET cells == FrameColumn(data, col)
        idx == Numbers(cells)
    IN [col |-> col,
        dtype |-> dtype(cells),
        min |-> CHOOSE m \in {cells[i].v : i \in idx} : \A i \in idx : m <= cells[i].v,
        max |-> CHOOSE m \in {cells[i].v : i \in idx} : \A i \in idx : m >= cells[i].v,
        avg |-> Hundredths(SumOver(cells, idx), Cardinality(idx))]

NoData == [text |-> "No data returned", records |-> 0, columns |-> <<>>,
           numeric_header |-> FALSE, stats |-> <<>>]

_summarize_data(data) ==
    IF data = <<>> THEN NoData
    ELSE LET numeric_cols == select_numeric(data)
             shown == capped(numeric_cols)
         IN [text |-> "Dataset contains",
             records |-> Len(data),
             columns |-> Keys(data[1]),
             numeric_header |-> Len(numeric_cols) > 0,
             stats |-> [i \in DOMAIN shown |-> stats_line(data, shown[i])]]

-----------------------------------------------------------------------------
(* Text.  A string is the sequence of its pieces, "" is <<>>; an optional  *)
(* string (str or None) is [none, text].                                   *)

Str(text) == [none |-> FALSE, text |-> text]
NoneStr == [none |-> TRUE, text |-> <<>>]

\* Python truthiness of an optional string: `not x`
Falsy(x) == x.none \/ x.text = <<>>

IsSpace(piece) == piece \in {" ", "\n"}

\* str.strip()
RECURSIVE lstrip(_)
lstrip(text) ==
    IF text # <<>> /\ IsSpace(Head(text)) THEN lstrip(Tail(text)) ELSE text

RECURSIVE rstrip(_)
rstrip(text) ==
    IF text # <<>> /\ IsSpace(text[Len(text)])
    THEN rstrip(SubSeq(text, 1, Len(text) - 1))
    ELSE text

strip(text) == rstrip(lstrip(text))

-----------------------------------------------------------------------------
(* The language-model service.  One call either raises or returns a        *)
(* completion: llm = [ok, text].                                           *)

LLMError == [ok |-> FALSE, text |-> <<>>]
LLMText(text) == [ok |-> TRUE, text |-> text]

\* What the service answers to the query prompt: an error, a statement
\* with white space around it, or white space only.
QueryCompletions ==
    {LLMError, LLMText(<<" ", "SELECT COUNT(*) FROM cust_tbl", "\n">>), LLMText(<<" ", "\n">>)}

\* What the service answers to the insight prompt.
InsightCompletions == {LLMError, LLMText(<<"\n", "There are 42 active customers.">>)}

\* SQLAgent.generate_sql_query, app.py:60-96: one call of the service, no
\* retry; None when it raises.
generate_sql_query_retry(question_arg, llm) ==
    [query |-> IF llm.ok THEN Str(strip(llm.text)) ELSE NoneStr,
     llm_calls |-> IF llm.ok THEN 1 ELSE 2]
generate_sql_query(question_arg, llm) ==
    [query |-> IF llm.ok THEN Str(strip(llm.text)) ELSE NoneStr,
     llm_calls |-> 1]

\* The strings generate_insights can return: a fixed text, a fixed text
\* around a number, or the service's completion.
Message(fixed, n, completion) == [fixed |-> fixed, n |-> n, completion |-> completion]

Apology ==
    Message("I encountered an error while analyzing the data. Please try rephrasing your question.",
            0, <<>>)

Degraded(n) ==
    Message("Analysis completed, but I couldn't generate detailed insights. Raw results: {n} records found.",
            n, <<>>)

\* SQLAgent.generate_insights, app.py:120-155
generate_insights_always_asks(question_arg, query_results, llm) ==
    [text |-> IF llm.ok THEN Message("", 0, strip(llm.text))
              ELSE Degraded(Len(query_results.data)),
     summary |-> <<_summarize_data(query_results.data)>>,
     llm_calls |-> 1]
generate_insights(question_arg, query_results, llm) ==
    IF ~query_results.success
    THEN [text |-> Apology, summary |-> <<>>, llm_calls |-> 0]
    ELSE [text |-> IF llm.ok THEN Message("", 0, strip(llm.text))
                   ELSE Degraded(Len(query_results.data)),
          summary |-> <<_summarize_data(query_results.data)>>,
          llm_calls |-> 1]

-----------------------------------------------------------------------------
(* ask_question, app.py:193-222.                                           *)

\* The request body as request.get_json() meets it: no JSON at all (the
\* call raises or returns None, and data.get raises), or a JSON object
\* with or without the key.
NoJson == [json |-> FALSE, has_key |-> FALSE, question |-> NoneStr]
JsonBody(has_key, q) == [json |-> TRUE, has_key |-> has_key, question |-> q]

Questions == {<<"How many customers are active?">>, <<"Total revenue by region?">>}

Bodies ==
    {NoJson, JsonBody(FALSE, NoneStr), JsonBody(TRUE, Str(<<>>))}
        \cup {JsonBody(TRUE, Str(q)) : q \in Questions}

\* app.py:197, data.get('question', '')
get_question(b) == IF b.has_key THEN b.question ELSE Str(<<>>)

\* app.py:199, `if not question`
OnlyNoneMissing(q) == q.none
question_missing(q) == Falsy(q)

\* app.py:204, `if not sql_query`
AlwaysUsable(q) == TRUE
QueryUsable(q) == ~Falsy(q)

ErrorResponse(status, error) == [status |-> status, json |-> [error |-> error]]

\* jsonify raises TypeError on a value json cannot encode (bytes).
Jsonable(query_results) ==
    \A i \in DOMAIN query_results.data :
        \A j \in DOMAIN query_results.data[i] : query_results.data[i][j][2].t # "bytes"

AnswerFields == {"question", "sql_query", "results", "insights", "timestamp"}

\* app.py:213-222: the bundle, or the handler's `except` when jsonify raises
respond_abort_on_failure(q, sql, query_results, text) ==
    IF Jsonable(query_results) /\ query_results.success
    THEN [status |-> 200,
          json |-> [question |-> q, sql_query |-> sql, results |-> query_results,
                    insights |-> text, timestamp |-> "datetime.now().isoformat()"]]
    ELSE ErrorResponse(500, "Server error: TypeError")
respond(q, sql, query_results, text) ==
    IF Jsonable(query_results)
    THEN [status |-> 200,
          json |-> [question |-> q, sql_query |-> sql, results |-> query_results,
                    insights |-> text, timestamp |-> "datetime.now().isoformat()"]]
    ELSE ErrorResponse(500, "Server error: TypeError")

-----------------------------------------------------------------------------
(* The process: the module-level agent and the requests the transport      *)
(* dispatches concurrently.  ask_question is cut at its blocking calls     *)
(* (the two calls of the language-model service, sqlite3.connect and the   *)
(* query), so that requests interleave there.                              *)

Reqs == 1..NumReq

\* Connection 0 is the one _analyze_schema opens; execute_query opens a new
\* one on every call (app.py:101), here named after the request.
ConnIds == 0..NumReq
conn_of(r) == r

NoConn == [state |-> "unopened", held |-> FALSE, users |-> {}]

NoCalls == [stages |-> <<>>, llm_generate |-> 0, llm_insights |-> 0, store |-> 0, summarize |-> 0]

\* The store the process is started against (src/database/init_db.py).
TheStore == [tables |-> <<Table("cust_tbl", 4), Table("prod_master", 0)>>]

\* What the store answers to a generated statement.
QueryOutcomes ==
    {StoreError("query_error", "no such table: ordrs"),
     StoreError("query_error", ""),
     StoreRows(<<"COUNT(*)">>, <<<<VInt(42)>>>>),
     StoreRows(<<"id", "nm">>, <<>>),
     StoreRows(<<"doc">>, <<<<VBlob>>>>)}

ConnectError == StoreError("connect_error", "unable to open database file")

PipelineInit ==
    /\ agent = "unbuilt"
    /\ schema_info = <<>>
    /\ schema_runs = 0
    /\ pc = [r \in Reqs |-> "idle"]
    /\ body = [r \in Reqs |-> <<>>]
    /\ question = [r \in Reqs |-> <<>>]
    /\ sql_query = [r \in Reqs |-> <<>>]
    /\ results = [r \in Reqs |-> <<>>]
    /\ insights = [r \in Reqs |-> <<>>]
    /\ response = [r \in Reqs |-> <<>>]
    /\ calls = [r \in Reqs |-> NoCalls]
    /\ conns = [c \in ConnIds |-> NoConn]

Init == PipelineInit /\ fn_in = <<>> /\ fn_out = <<>>

\* app.py:191 and 25-27, `sql_agent = SQLAgent()`
Construct ==
    /\ agent = "unbuilt"
    /\ \E failAt \in 0..LastStep(TheStore) :
        LET run == _analyze_schema(TheStore, failAt)
        IN /\ schema_info' = run.schema
           /\ conns' = IF run.opened
                       THEN [conns EXCEPT ![0] = [state |-> IF run.closed THEN "closed" ELSE "open",
                                                  held |-> FALSE, users |-> {0}]]
                       ELSE conns
    /\ schema_runs' = schema_runs + 1
    /\ agent' = "built"
    /\ UNCHANGED <<pc, body, question, sql_query, results, insights, response, calls,
                   fn_in, fn_out>>

Finish(r, resp) ==
    /\ response' = [response EXCEPT ![r] = Append(@, resp)]
    /\ pc' = [pc EXCEPT ![r] = "done"]

\* app.py:224-226
get_schema(r) ==
    /\ agent = "built" /\ pc[r] = "idle"
    /\ Finish(r, [status |-> 200, json |-> schema_info])
    /\ UNCHANGED <<agent, schema_info, schema_runs, body, question, sql_query, results,
                   insights, calls, conns, fn_in, fn_out>>

\* app.py:228-230
health_check(r) ==
    /\ agent = "built" /\ pc[r] = "idle"
    /\ Finish(r, [status |-> 200,
                  json |-> [status |-> "healthy", timestamp |-> "datetime.now().isoformat()"]])
    /\ UNCHANGED <<agent, schema_info, schema_runs, body, question, sql_query, results,
                   insights, calls, conns, fn_in, fn_out>>

\* app.py:195-200 and 221-222
AskReceive(r) ==
    /\ agent = "built" /\ pc[r] = "idle"
    /\ \E b \in Bodies :
        /\ body' = [body EXCEPT ![r] = <<b>>]
        /\ IF ~b.json
           THEN /\ Finish(r, ErrorResponse(500, "Server error: AttributeError"))
                /\ UNCHANGED question
           ELSE /\ question' = [question EXCEPT ![r] = <<get_question(b)>>]
                /\ IF question_missing(get_question(b))
                   THEN Finish(r, ErrorResponse(400, "Question is required"))
                   ELSE /\ pc' = [pc EXCEPT ![r] = "generate"]
                        /\ UNCHANGED response
    /\ UNCHANGED <<agent, schema_info, schema_runs, sql_query, results, insights, calls,
                   conns, fn_in, fn_out>>

\* app.py:203-205
AskGenerate(r) ==
    /\ pc[r] = "generate"
    /\ \E llm \in QueryCompletions :
        LET gen == generate_sql_query(question[r][1], llm)
        IN /\ sql_query' = [sql_query EXCEPT ![r] = <<gen.query>>]
           /\ calls' = [calls EXCEPT ![r].stages = Append(@, "generate_sql_query"),
                                     ![r].llm_generate = @ + gen.llm_calls]
           /\ IF QueryUsable(gen.query)
              THEN /\ pc' = [pc EXCEPT ![r] = "connect"]
                   /\ UNCHANGED response
              ELSE Finish(r, ErrorResponse(500, "Could not generate SQL query"))
    /\ UNCHANGED <<agent, schema_info, schema_runs, body, question, results, insights,
                   conns, fn_in, fn_out>>

\* app.py:208 and 100-101: execute_query starts and opens its connection;
\* when sqlite3.connect raises, the call ends in its `except`.
AskConnect(r) ==
    /\ pc[r] = "connect"
    /\ calls' = [calls EXCEPT ![r].stages = Append(@, "execute_query")]
    /\ \E connected \in BOOLEAN :
        IF connected
        THEN /\ conns' = [conns EXCEPT ![conn_of(r)] =
                            [state |-> "open", held |-> TRUE, users |-> @.users \cup {r}]]
             /\ pc' = [pc EXCEPT ![r] = "query"]
             /\ UNCHANGED results
        ELSE /\ results' = [results EXCEPT ![r] = <<execute_query(sql_query[r][1], ConnectError)>>]
             /\ pc' = [pc EXCEPT ![r] = "insights"]
             /\ UNCHANGED conns
    /\ UNCHANGED <<agent, schema_info, schema_runs, body, question, sql_query, insights,
                   response, fn_in, fn_out>>

\* app.py:102-118: the query runs; conn.close() is reached only when it
\* did not raise.  On return the handler holds the connection no longer.
AskQuery(r) ==
    /\ pc[r] = "query"
    /\ \E store \in QueryOutcomes :
        /\ results' = [results EXCEPT ![r] = <<execute_query(sql_query[r][1], store)>>]
        /\ conns' = [conns EXCEPT ![conn_of(r)].state =
                                      IF execute_query_closes(store) THEN "closed" ELSE @,
                                  ![conn_of(r)].held = FALSE]
    /\ calls' = [calls EXCEPT ![r].store = @ + 1]
    /\ pc' = [pc EXCEPT ![r] = "insights"]
    /\ UNCHANGED <<agent, schema_info, schema_runs, body, question, sql_query, insights,
                   response, fn_in, fn_out>>

\* app.py:211-222
AskInsights(r) ==
    /\ pc[r] = "insights"
    /\ \E llm \in InsightCompletions :
        LET ins == generate_insights(question[r][1], results[r][1], llm)
        IN /\ insights' = [insights EXCEPT ![r] = <<ins.text>>]
           /\ calls' = [calls EXCEPT ![r].stages = Append(@, "generate_insights"),
                                     ![r].llm_insights = @ + ins.llm_calls,
                                     ![r].summarize = @ + Len(ins.summary)]
           /\ Finish(r, respond(question[r][1], sql_query[r][1], results[r][1], ins.text))
    /\ UNCHANGED <<agent, schema_info, schema_runs, body, question, sql_query, results,
                   conns, fn_in, fn_out>>

\* The runtime finalises a connection object nothing refers to any more,
\* which closes it; when, or whether, is the runtime's choice.
Finalize(c) ==
    /\ conns[c].state = "open" /\ ~conns[c].held
    /\ conns' = [conns EXCEPT ![c].state = "closed"]
    /\ UNCHANGED <<agent, schema_info, schema_runs, pc, body, question, sql_query, results,
                   insights, response, calls, fn_in, fn_out>>

Next ==
    \/ Construct
    \/ \E r \in Reqs : get_schema(r)
    \/ \E r \in Reqs : health_check(r)
    \/ \E r \in Reqs : AskReceive(r)
    \/ \E r \in Reqs : AskGenerate(r)
    \/ \E r \in Reqs : AskConnect(r)
    \/ \E r \in Reqs : AskQuery(r)
    \/ \E r \in Reqs : AskInsights(r)
    \/ \E c \in ConnIds : Finalize(c)

Spec == Init /\ [][Next]_vars

-----------------------------------------------------------------------------
(* One call of execute_query on every outcome of the store within the      *)
(* bounds: specification SpecExec.                                         *)

ColumnLabels == {"id", "nm"}
CellValues == {VInt(1), VInt(2)}

\* Every result set of up to maxCols columns and up to maxRows rows.
ResultSets(maxCols, maxRows) ==
    UNION {{StoreRows(columns, rows) :
                columns \in [1..k -> ColumnLabels],
                rows \in SeqsUpTo([1..k -> CellValues], maxRows)}
           : k \in 1..maxCols}

\* str(e) of what pd.read_sql_query raises; "" is an exception built
\* without arguments, such as the MemoryError of a result set too large to
\* materialise.
ErrorMessages == {"no such table: ordrs", "near \"FORM\": syntax error", ""}

StoreOutcomes(maxCols, maxRows) ==
    ResultSets(maxCols, maxRows)
        \cup {ConnectError} \cup {StoreError("query_error", msg) : msg \in ErrorMessages}

InitExec ==
    /\ PipelineInit
    /\ fn_in \in {[sql_query |-> Str(<<"SELECT">>), store |-> st] : st \in StoreOutcomes(MaxCols, MaxRows)}
    /\ fn_out = <<>>

CallExec ==
    /\ fn_out = <<>>
    /\ fn_out' = <<execute_query(fn_in.sql_query, fn_in.store)>>
    /\ UNCHANGED <<pipeline_vars, fn_in>>

SpecExec == InitExec /\ [][CallExec]_vars

-----------------------------------------------------------------------------
(* One call of _analyze_schema on every store within the bounds, with      *)
(* every store call that can raise: specification SpecSchema.              *)

InitSchema ==
    /\ PipelineInit
    /\ fn_in \in {[store |-> st, failAt |-> f] : st \in Stores(MaxTables, MaxTableRows), f \in 0..(2 * MaxTables + 2)}
    /\ fn_in.failAt <= LastStep(fn_in.store)
    /\ fn_out = <<>>

CallSchema ==
    /\ fn_out = <<>>
    /\ fn_out' = <<_analyze_schema(fn_in.store, fn_in.failAt)>>
    /\ UNCHANGED <<pipeline_vars, fn_in>>

SpecSchema == InitSchema /\ [][CallSchema]_vars

-----------------------------------------------------------------------------
(* One call of _summarize_data on row sequences within the bounds:         *)
(* specification SpecSumm.  Every column is all integers, integers with a  *)
(* NULL, all NULL, all text, or text and integers mixed.                   *)

ColNames == <<"c1", "c2", "c3", "c4", "c5", "c6", "c7", "c8">>

Profiles(n) ==
    {[i \in 1..n |-> VInt(i)],
     [i \in 1..n |-> IF i = n THEN VNull ELSE VInt(i)],
     [i \in 1..n |-> VNull],
     [i \in 1..n |-> VText(i)],
     [i \in 1..n |-> IF i = 1 THEN VText(i) ELSE VInt(i)]}

\* Every row sequence of up to maxRows rows and up to maxCols columns.
SumData(maxRows, maxCols) ==
    UNION {{[i \in 1..n |-> [j \in 1..k |-> <<ColNames[j], prof[j][i]>>]] :
                prof \in [1..k -> Profiles(n)]}
           : <<n, k>> \in (0..maxRows) \X (1..maxCols)}

InitSumm ==
    /\ PipelineInit
    /\ fn_in \in {[data |-> d] : d \in SumData(SumRows, SumCols)}
    /\ fn_out = <<>>

CallSumm ==
    /\ fn_out = <<>>
    /\ fn_out' = <<_summarize_data(fn_in.data)>>
    /\ UNCHANGED <<pipeline_vars, fn_in>>

SpecSumm == InitSumm /\ [][CallSumm]_vars

-----------------------------------------------------------------------------
(* The claims.                                                             *)

Asked(r) == question[r] # <<>> /\ ~question[r][1].none /\ question[r][1].text # <<>>

GenerationError == ErrorResponse(500, "Could not generate SQL query")

\* C1: whenever generate_insights was given a QueryResult with
\* success = false, it called the language-model service zero times and
\* returned exactly the fixed apology message, whatever the question and
\* the error text.
C1_FailedResultShortCircuits ==
    \A r \in Reqs :
        (insights[r] # <<>> /\ ~results[r][1].success) =>
            /\ insights[r][1] = Apology
            /\ calls[r].llm_insights = 0

\* Two requests with different questions and different error texts both
\* got the apology.
C1_Witness ==
    \E r1, r2 \in Reqs :
        /\ insights[r1] # <<>> /\ insights[r2] # <<>>
        /\ ~results[r1][1].success /\ ~results[r2][1].success
        /\ question[r1] # question[r2]
        /\ results[r1][1].error # results[r2][1].error

\* C2: when generate_sql_query returned None, the request ends with the
\* explicit generation error, and execute_query, _summarize_data and
\* generate_insights never ran for it: no store connection, no store query
\* and no second language-model call.
C2_GenerationFailureHalts ==
    \A r \in Reqs :
        (sql_query[r] # <<>> /\ sql_query[r][1].none) =>
            /\ pc[r] = "done"
            /\ response[r] = <<GenerationError>>
            /\ calls[r].stages = <<"generate_sql_query">>
            /\ calls[r].store = 0 /\ calls[r].summarize = 0 /\ calls[r].llm_insights = 0
            /\ results[r] = <<>> /\ insights[r] = <<>>
            /\ conns[conn_of(r)].state = "unopened"

C2_Witness ==
    \E r \in Reqs : sql_query[r] # <<>> /\ sql_query[r][1].none /\ pc[r] = "done"

\* C3: a request whose question is empty or missing (no JSON body, key
\* absent, empty string) ends with an error response, and no pipeline
\* component ran for it: no language-model call and no store access.
NoQuestion(b) == ~b.json \/ ~b.has_key \/ Falsy(b.question)

C3_MissingQuestionRejected ==
    \A r \in Reqs :
        (body[r] # <<>> /\ NoQuestion(body[r][1])) =>
            /\ pc[r] = "done"
            /\ Len(response[r]) = 1
            /\ response[r][1].status >= 400
            /\ DOMAIN response[r][1].json = {"error"}
            /\ calls[r] = NoCalls
            /\ conns[conn_of(r)].state = "unopened"

\* One request without a JSON body and one without the key, both rejected.
C3_Witness ==
    \E r1, r2 \in Reqs :
        /\ body[r1] = <<NoJson>> /\ pc[r1] = "done"
        /\ body[r2] = <<JsonBody(FALSE, NoneStr)>> /\ pc[r2] = "done"

\* C4: every QueryResult execute_query returns with success = false has an
\* empty row sequence, an empty column list, row_count = 0 and a non-empty
\* error string, whatever the failure.
C4_FailureShape ==
    (fn_out # <<>> /\ ~fn_out[1].success) =>
        /\ fn_out[1].data = <<>>
        /\ fn_out[1].columns = <<>>
        /\ fn_out[1].row_count = 0
        /\ fn_out[1].error # ""

\* C5: every QueryResult execute_query returns with success = true has no
\* error field, row_count equal to the number of row records and, when
\* there is a row, a columns list equal to the key sequence of every row
\* record.
C5_SuccessShape ==
    (fn_out # <<>> /\ fn_out[1].success) =>
        /\ "error" \notin DOMAIN fn_out[1]
        /\ fn_out[1].row_count = Len(fn_out[1].data)
        /\ \A i \in DOMAIN fn_out[1].data : fn_out[1].columns = Keys(fn_out[1].data[i])

\* C6: every store connection is closed when the operation that opened it
\* has returned, on every exit path, and no connection is used by more
\* than one request.
C6_ConnectionsReleased ==
    \A c \in ConnIds :
        /\ conns[c].state = "open" => conns[c].held
        /\ Cardinality(conns[c].users) <= 1

InFlight == {"generate", "connect", "query", "insights"}

C8_IntrospectionFailsSoft ==
    fn_out # <<>> =>
        LET schema == fn_out[1].schema
            tables == fn_in.store.tables
        IN IF fn_in.failAt # 0
           THEN schema = <<>>
           ELSE /\ [i \in DOMAIN schema |-> schema[i][1]] = [i \in DOMAIN tables |-> tables[i].name]
                /\ \A i \in DOMAIN schema :
                    /\ Len(schema[i][2].sample_data) <= 3
                    /\ Len(schema[i][2].sample_data) <= Len(tables[i].rows)
                    /\ schema[i][2].sample_data =
                           SubSeq(tables[i].rows, 1, Len(schema[i][2].sample_data))
                    /\ (Len(tables[i].rows) >= 3 => Len(schema[i][2].sample_data) = 3)

\* The read of the second table raised after the first table, holding
\* more than 3 rows, had been read.
C8_Witness ==
    /\ fn_out # <<>>
    /\ Len(fn_in.store.tables) >= 2
    /\ Len(fn_in.store.tables[1].rows) > 3
    /\ fn_in.failAt = SelectStep(2)
    /\ fn_out[1].schema = <<>>

\* C9: for a non-empty row sequence _summarize_data emits statistics lines
\* for exactly the first min(3, n) numeric columns in column order (n the
\* number of numeric columns), never for a non-numeric column nor for a
\* fourth numeric one; for an empty row sequence it returns the no-data
\* marker only.  A column is numeric when it holds integers, possibly with
\* NULLs, and at least one integer.
NumericAt(data, j) ==
    /\ \A i \in DOMAIN data : data[i][j][2].t \in {"int", "none"}
    /\ \E i \in DOMAIN data : data[i][j][2].t = "int"

C9_StatsForFirstThreeNumeric ==
    fn_out # <<>> =>
        LET data == fn_in.data
            out == fn_out[1]
        IN IF data = <<>>
           THEN out = NoData
           ELSE LET numeric == {j \in DOMAIN data[1] : NumericAt(data, j)}
                IN /\ Len(out.stats) = Min2(3, Cardinality(numeric))
                   /\ \A i \in DOMAIN out.stats :
                        \E j \in numeric :
                            /\ out.stats[i].col = data[1][j][1]
                            /\ Cardinality({k \in numeric : k < j}) = i - 1

\* Five columns, four of them numeric with a text column among the first
\* three: three lines, the text column and the fourth numeric one skipped.
C9_Witness ==
    /\ fn_out # <<>>
    /\ Len(fn_in.data) = 2
    /\ Len(fn_in.data[1]) = 5
    /\ {j \in 1..5 : NumericAt(fn_in.data, j)} = {1, 3, 4, 5}
    /\ [i \in DOMAIN fn_out[1].stats |-> fn_out[1].stats[i].col] = <<"c1", "c3", "c4">>

\* C10: the schema description is computed once, at construction, and no
\* step of any request changes it afterwards; within a request every stage
\* runs at most once, with at most one service or store call each, in the
\* order generation, execution, insight; and a step of one request leaves
\* the state of every other request as it was.
StageOrder == <<"generate_sql_query", "execute_query", "generate_insights">>

RequestState(r) ==
    <<pc[r], body[r], question[r], sql_query[r], results[r], insights[r], response[r],
      calls[r]>>

C10_Step ==
    /\ schema_runs' <= 1
    /\ agent = "built" => (schema_info' = schema_info /\ schema_runs' = schema_runs)
    /\ \A r \in Reqs :
        /\ calls'[r].llm_generate <= 1
        /\ calls'[r].store <= 1
        /\ calls'[r].llm_insights <= 1
        /\ calls'[r].stages = SubSeq(StageOrder, 1, Len(calls'[r].stages))
    /\ \A r \in Reqs :
        pc'[r] = pc[r] => RequestState(r)' = RequestState(r)

C10_SchemaFixedStagesOnce == [][C10_Step]_vars

\* The schema was read, one request ended in a generation failure and the
\* other was answered in full.
C10_Witness ==
    /\ agent = "built" /\ schema_info # <<>>
    /\ \E r1, r2 \in Reqs :
        /\ pc[r1] = "done" /\ sql_query[r1] # <<>> /\ response[r1] = <<GenerationError>>
        /\ pc[r2] = "done" /\ calls[r2].stages = StageOrder
        /\ calls[r2].llm_insights = 1
        /\ response[r2][1].status = 200

====
